---- MODULE Spec2Model ----
(***************************************************************************)
(* A model of app.py, the Streamlit stock dashboard: the rate fetch with   *)
(* its 300 second cache (ambil_kurs_usd_idr), the normalisation of a raw   *)
(* quote frame (olah_data), the indicator columns (tambah_indikator), the  *)
(* USD/IDR metrics (hitung_metrik), and one run of the script (the refresh *)
(* branch followed by the sidebar panel).                                  *)
(*                                                                         *)
(* A DataFrame is a record                                                 *)
(*   kolom      the column labels, in order (level 0 of a MultiIndex)      *)
(*   bertingkat TRUE when the columns are a pandas MultiIndex              *)
(*   indeks     [jenis, nama, tz, nilai]: the index, its name, its         *)
(*              timezone and its values                                    *)
(*   baris      the rows, each a function from column label to value       *)
(* Prices and volumes are integers; a quotient is kept exact as a          *)
(* numerator and a denominator, or is one of the IEEE specials.            *)
(***************************************************************************)
EXTENDS Integers, Sequences, FiniteSets, TLC

VARIABLES
    \* ---- the harness that calls the core functions one at a time ----
    tahap,         \* which call was made last
    masukan,       \* the caller's object as it was before the call
    objek,         \* the same object as it is after the call
    kurs_arg,      \* the rate passed to hitung_metrik
    galat,         \* the exception the call raised, "" when it returned
    bingkai,       \* the frame the call returned
    hasil,         \* the dict hitung_metrik returned
    \* ---- one run of the script ----
    pc,            \* position of the script run
    now,           \* wall clock, seconds
    cache,         \* the st.cache_data entry of ambil_kurs_usd_idr
    tombol,        \* the refresh button was pressed in this run
    kurs_idr,      \* app.py:211
    kurs_sidebar,  \* app.py:423
    metrik,        \* app.py:223
    layar,         \* what the main area has been sent in this run
    terpanggil,    \* the core functions the refresh branch has called
    sisi,          \* what the sidebar loop wrote for the symbol it did last
    idx,           \* position of the sidebar loop in daftar_saham
    asal_kurs,     \* where kurs_idr came from: cache, provider or fallback
    unduhan,       \* what ambil_data_saham gave the refresh branch
    \* ---- history of the calls of ambil_kurs_usd_idr ----
    terakhir,      \* the last call: time, value, whether it fetched
    sebelum,       \* the call before it
    muat,          \* the last fetch: when it was made and what it stored
    muat_lama      \* the last fetch made before the last call

vars == <<tahap, masukan, objek, kurs_arg, galat, bingkai, hasil,
          pc, now, cache, tombol, kurs_idr, kurs_sidebar, metrik, layar,
          terpanggil, sisi, idx, asal_kurs, unduhan, terakhir, sebelum, muat, muat_lama>>

fvars == <<tahap, masukan, objek, kurs_arg, galat, bingkai, hasil>>
svars == <<pc, now, cache, tombol, kurs_idr, kurs_sidebar, metrik, layar,
           terpanggil, sisi, idx, asal_kurs, unduhan, terakhir, sebelum, muat, muat_lama>>

----------------------------------------------------------------------------
(* Bounds and program constants *)

MaxLen == 2

MaxWaktu == 400

KURS_USD_IDR == 15700

TTL == 300

Jeda == 100

Harga == {0, 1, 2}

Range(s) == {s[i] : i \in 1..Len(s)}

----------------------------------------------------------------------------
(* Frames *)

OHLCV == <<"Open", "High", "Low", "Close", "Volume">>

TanpaBingkai == [kolom |-> <<>>, bertingkat |-> FALSE,
                 indeks |-> [jenis |-> "RangeIndex", nama |-> "", tz |-> "None", nilai |-> <<>>],
                 baris |-> <<>>]

RangeIndex(n) == [jenis |-> "RangeIndex", nama |-> "", tz |-> "None", nilai |-> [i \in 1..n |-> i - 1]]

\* One raw bar as the provider sends it: flat frames of the older provider
\* library carry an "Adj Close" column as well.
Batang(adj) ==
    {[c \in Range(OHLCV) \cup (IF adj THEN {"Adj Close"} ELSE {}) |->
        CASE c = "Open" -> 1
          [] c = "High" -> h
          [] c = "Low" -> l
          [] c = "Close" -> p
          [] c = "Adj Close" -> p
          [] OTHER -> v] :
      h \in Harga \ {0}, l \in Harga \ {2}, p \in Harga, v \in {1, 2}}

BatangKecil(adj) ==
    {b \in Batang(adj) : b["High"] = 2 /\ b["Low"] = 0 /\ b["Volume"] = 1 /\ b["Close"] > 0}

Deret(S, n) == UNION {[1..k -> S] : k \in 0..n}

\* What yf.download returns: hierarchical columns without "Adj Close" or
\* flat columns with it; a daily index named Date without a timezone or an
\* intraday index named Datetime with one.
Bentuk(rows, multi, harian) ==
    [kolom |-> IF multi THEN OHLCV ELSE <<"Adj Close">> \o OHLCV,
     bertingkat |-> multi,
     indeks |-> [jenis |-> "DatetimeIndex",
                 nama |-> IF harian THEN "Date" ELSE "Datetime",
                 tz |-> IF harian THEN "None" ELSE "UTC",
                 nilai |-> [i \in 1..Len(rows) |-> i]],
     baris |-> rows]

DataMentah ==
    {Bentuk(rows, TRUE, harian) : rows \in Deret(Batang(FALSE), MaxLen), harian \in BOOLEAN}
    \cup {Bentuk(rows, FALSE, harian) : rows \in Deret(Batang(TRUE), MaxLen), harian \in BOOLEAN}
    \cup {TanpaBingkai}

DataPasar ==
    {Bentuk(rows, TRUE, FALSE) : rows \in Deret(BatangKecil(FALSE), MaxLen)}
    \cup {Bentuk(rows, FALSE, TRUE) : rows \in Deret(BatangKecil(TRUE), MaxLen)}
    \cup {TanpaBingkai}

\* Mutant of empty: only the columns are looked at
empty_salah(df) == Len(df.kolom) = 0

\* DataFrame.empty: some axis has length zero
empty(df) == Len(df.baris) = 0 \/ Len(df.kolom) = 0

\* Whether a downloaded frame holds any bar
Isi(df) == IF Len(df.baris) = 0 THEN "kosong" ELSE "isi"

----------------------------------------------------------------------------
(* Numbers: float division never raises, it yields inf, -inf or nan *)

Rasional(a, b) == [jenis |-> "rasional", num |-> a, den |-> b]

Khusus(k) == [jenis |-> k, num |-> 0, den |-> 0]

\* a / b on float64 values (app.py:95, app.py:435)
Bagi(a, b) ==
    IF b # 0 THEN Rasional(a, b)
    ELSE IF a > 0 THEN Khusus("inf")
    ELSE IF a < 0 THEN Khusus("-inf")
    ELSE Khusus("nan")

\* x * 100 on a quotient
Kali100(x) == IF x.jenis = "rasional" THEN Rasional(x.num * 100, x.den) ELSE x

\* Mutant of Maks: the smallest element is taken
Maks_salah(S) == CHOOSE x \in S : \A y \in S : x <= y

Maks(S) == CHOOSE x \in S : \A y \in S : y <= x

Min(S) == CHOOSE x \in S : \A y \in S : x <= y

RECURSIVE Jumlah(_)
Jumlah(s) == IF Len(s) = 0 THEN 0 ELSE s[1] + Jumlah(Tail(s))

Kolom(df, c) == [i \in 1..Len(df.baris) |-> df.baris[i][c]]

----------------------------------------------------------------------------
(* olah_data, app.py:57-85 *)

\* app.py:62-63: the assignment to df.columns acts on the caller's frame
Ratakan(df) == IF df.bertingkat THEN [df EXCEPT !.bertingkat = FALSE] ELSE df

\* app.py:66: a copy that keeps the five OHLCV columns
PilihKolom(df) ==
    [df EXCEPT !.kolom = OHLCV,
               !.baris = [i \in 1..Len(df.baris) |-> [c \in Range(OHLCV) |-> df.baris[i][c]]]]

\* app.py:68-69: a naive index is taken to be UTC
tz_localize(df) == IF df.indeks.tz = "None" THEN [df EXCEPT !.indeks.tz = "UTC"] ELSE df

\* app.py:71: the same instants, shown in the exchange's zone
tz_convert(df) == [df EXCEPT !.indeks.tz = "US/Eastern"]

\* app.py:75-83
NamaBaru(c) ==
    CASE c = "Date" -> "Tanggal"
      [] c = "Datetime" -> "Tanggal"
      [] c = "Open" -> "Pembukaan"
      [] c = "High" -> "Tertinggi"
      [] c = "Low" -> "Terendah"
      [] c = "Close" -> "Penutupan"
      [] OTHER -> c

\* app.py:72: the index becomes the first column, named after the index
reset_index(df) ==
    LET nama == IF df.indeks.nama = "" THEN "index" ELSE df.indeks.nama
    IN [kolom |-> <<nama>> \o df.kolom,
        bertingkat |-> FALSE,
        indeks |-> RangeIndex(Len(df.baris)),
        baris |-> [i \in 1..Len(df.baris) |->
                    [c \in Range(df.kolom) \cup {nama} |->
                       IF c = nama THEN [saat |-> df.indeks.nilai[i], tz |-> df.indeks.tz]
                       ELSE df.baris[i][c]]]]

rename(df) ==
    [df EXCEPT !.kolom = [i \in 1..Len(df.kolom) |-> NamaBaru(df.kolom[i])],
               !.baris = [i \in 1..Len(df.baris) |->
                            [n \in {NamaBaru(c) : c \in Range(df.kolom)} |->
                               df.baris[i][CHOOSE c \in Range(df.kolom) : NamaBaru(c) = n]]]]

\* The call olah_data(df): arg is the caller's frame after the call, ret the
\* frame returned, err the exception raised ("" when it returned).
olah_data(df) ==
    LET rata == Ratakan(df)
    IN IF ~ (Range(OHLCV) \subseteq Range(rata.kolom))
       THEN [arg |-> rata, ret |-> TanpaBingkai, err |-> "KeyError"]
       ELSE IF rata.indeks.jenis # "DatetimeIndex"
       THEN [arg |-> rata, ret |-> TanpaBingkai, err |-> "AttributeError"]
       ELSE [arg |-> rata, ret |-> rename(reset_index(tz_convert(tz_localize(PilihKolom(rata))))), err |-> ""]

----------------------------------------------------------------------------
(* tambah_indikator, app.py:120-141 *)

Absen == Khusus("nan")

\* ta.trend.sma_indicator: rolling(window, min_periods=window).mean()
sma_indicator(tutup, window) ==
    [i \in 1..Len(tutup) |->
        IF i < window THEN Absen
        ELSE Rasional(Jumlah(SubSeq(tutup, i - window + 1, i)), window)]

\* ta.trend.ema_indicator and ta.momentum.rsi: absent until the window is
\* filled; a filled window yields a number this model does not compute.
ema_indicator(tutup, window) ==
    [i \in 1..Len(tutup) |-> IF i < window THEN Absen ELSE Khusus("ema")]

rsi(tutup, window) ==
    [i \in 1..Len(tutup) |-> IF i < window THEN Absen ELSE Khusus("rsi")]

KolomIndikator == <<"SMA_20", "SMA_50", "EMA_20", "EMA_50", "RSI">>

\* The call tambah_indikator(df). Series.squeeze() turns a one-row column
\* into a scalar, which the ta functions cannot roll over.
tambah_indikator(df) ==
    IF ~ ("Penutupan" \in Range(df.kolom))
    THEN [arg |-> df, ret |-> TanpaBingkai, err |-> "KeyError"]
    ELSE IF Len(df.baris) = 1
    THEN [arg |-> df, ret |-> TanpaBingkai, err |-> "AttributeError"]
    ELSE LET tutup == Kolom(df, "Penutupan")
             nilai(c) == CASE c = "SMA_20" -> sma_indicator(tutup, 20)
                           [] c = "SMA_50" -> sma_indicator(tutup, 50)
                           [] c = "EMA_20" -> ema_indicator(tutup, 20)
                           [] c = "EMA_50" -> ema_indicator(tutup, 50)
                           [] OTHER -> rsi(tutup, 14)
         IN [arg |-> df,
             ret |-> [df EXCEPT !.kolom = df.kolom \o KolomIndikator,
                                !.baris = [i \in 1..Len(df.baris) |->
                                   [c \in Range(df.kolom) \cup Range(KolomIndikator) |->
                                      IF c \in Range(df.kolom) THEN df.baris[i][c]
                                      ELSE nilai(c)[i]]]],
             err |-> ""]

----------------------------------------------------------------------------
(* hitung_metrik, app.py:88-117 *)

TanpaMetrik ==
    [harga_terakhir_usd |-> 0, harga_terakhir_idr |-> 0, perubahan_usd |-> 0,
     perubahan_idr |-> 0, perubahan_persen |-> Absen, harga_tertinggi_usd |-> 0,
     harga_tertinggi_idr |-> 0, harga_terendah_usd |-> 0, harga_terendah_idr |-> 0,
     total_volume |-> 0]

\* app.py:95
perubahan_persen(perubahan_usd, harga_awal_usd) == Kali100(Bagi(perubahan_usd, harga_awal_usd))

\* app.py:98
total_volume(df) == Jumlah(Kolom(df, "Volume"))

\* Mutant of KonversiIDR: the module constant is used, not the rate passed
KonversiIDR_salah(usd, kurs) == usd * KURS_USD_IDR

\* app.py:101-104
KonversiIDR(usd, kurs) == usd * kurs

\* The call hitung_metrik(df, kurs): ret is the dict returned, err the
\* exception raised ("" when it returned).
hitung_metrik(df, kurs) ==
    IF ~ ({"Penutupan", "Tertinggi", "Terendah", "Volume"} \subseteq Range(df.kolom))
    THEN [arg |-> df, ret |-> TanpaMetrik, err |-> "KeyError"]
    ELSE IF Len(df.baris) = 0
    THEN [arg |-> df, ret |-> TanpaMetrik, err |-> "IndexError"]
    ELSE LET harga_terakhir_usd == df.baris[Len(df.baris)]["Penutupan"]
             harga_awal_usd == df.baris[1]["Penutupan"]
             perubahan_usd == harga_terakhir_usd - harga_awal_usd
             harga_tertinggi_usd == Maks(Range(Kolom(df, "Tertinggi")))
             harga_terendah_usd == Min(Range(Kolom(df, "Terendah")))
         IN [arg |-> df,
             ret |-> [harga_terakhir_usd |-> harga_terakhir_usd,
                      harga_terakhir_idr |-> KonversiIDR(harga_terakhir_usd, kurs),
                      perubahan_usd |-> perubahan_usd,
                      perubahan_idr |-> KonversiIDR(perubahan_usd, kurs),
                      perubahan_persen |-> perubahan_persen(perubahan_usd, harga_awal_usd),
                      harga_tertinggi_usd |-> harga_tertinggi_usd,
                      harga_tertinggi_idr |-> KonversiIDR(harga_tertinggi_usd, kurs),
                      harga_terendah_usd |-> harga_terendah_usd,
                      harga_terendah_idr |-> KonversiIDR(harga_terendah_usd, kurs),
                      total_volume |-> total_volume(df)],
             err |-> ""]

----------------------------------------------------------------------------
(* The core functions called one at a time on a raw frame *)

KursUji == {-1, 0, 2, KURS_USD_IDR}

InitLokal ==
    /\ pc = "siap" /\ now = 0
    /\ cache = [ada |-> FALSE, nilai |-> 0, sejak |-> 0]
    /\ tombol = FALSE /\ kurs_idr = 0 /\ kurs_sidebar = 0
    /\ metrik = TanpaMetrik /\ layar = <<>> /\ terpanggil = {}
    /\ sisi = "" /\ idx = 0
    /\ terakhir = [ada |-> FALSE, t |-> 0, nilai |-> 0, ambil |-> FALSE]
    /\ sebelum = [ada |-> FALSE, t |-> 0, nilai |-> 0, ambil |-> FALSE]
    /\ muat = [ada |-> FALSE, nilai |-> 0, sejak |-> 0]
    /\ muat_lama = [ada |-> FALSE, nilai |-> 0, sejak |-> 0]
    /\ asal_kurs = "" /\ unduhan = ""

InitFungsi ==
    /\ tahap = "mentah"
    /\ masukan \in DataMentah
    /\ objek = masukan
    /\ kurs_arg = KURS_USD_IDR
    /\ galat = ""
    /\ bingkai = TanpaBingkai
    /\ hasil = TanpaMetrik
    /\ InitLokal

\* data = olah_data(data) on a raw frame
PanggilOlahData ==
    /\ tahap = "mentah"
    /\ LET r == olah_data(masukan)
       IN /\ objek' = r.arg
          /\ bingkai' = r.ret
          /\ galat' = r.err
    /\ tahap' = "olah_data"
    /\ UNCHANGED <<masukan, kurs_arg, hasil>>
    /\ UNCHANGED svars

\* olah_data applied to a frame olah_data returned
PanggilOlahUlang ==
    /\ tahap = "olah_data" /\ galat = ""
    /\ LET r == olah_data(bingkai)
       IN /\ masukan' = bingkai
          /\ objek' = r.arg
          /\ bingkai' = r.ret
          /\ galat' = r.err
    /\ tahap' = "olah_ulang"
    /\ UNCHANGED <<kurs_arg, hasil>>
    /\ UNCHANGED svars

\* tambah_indikator applied to a frame olah_data returned
PanggilTambahIndikator ==
    /\ tahap = "olah_data" /\ galat = ""
    /\ LET r == tambah_indikator(bingkai)
       IN /\ masukan' = bingkai
          /\ objek' = r.arg
          /\ bingkai' = r.ret
          /\ galat' = r.err
    /\ tahap' = "tambah_indikator"
    /\ UNCHANGED <<kurs_arg, hasil>>
    /\ UNCHANGED svars

\* hitung_metrik applied to a normalised frame, with or without indicators
PanggilHitungMetrik ==
    /\ tahap \in {"olah_data", "tambah_indikator"} /\ galat = ""
    /\ \E kurs \in KursUji :
         LET r == hitung_metrik(bingkai, kurs)
         IN /\ masukan' = bingkai
            /\ objek' = r.arg
            /\ hasil' = r.ret
            /\ galat' = r.err
            /\ kurs_arg' = kurs
    /\ tahap' = "hitung_metrik"
    /\ UNCHANGED bingkai
    /\ UNCHANGED svars

NextFungsi ==
    \/ PanggilOlahData
    \/ PanggilOlahUlang
    \/ PanggilTambahIndikator
    \/ PanggilHitungMetrik

SpecFungsi == InitFungsi /\ [][NextFungsi]_vars

----------------------------------------------------------------------------
(* ambil_kurs_usd_idr, app.py:21-35 *)

\* What the provider may answer to yf.download('IDR=X'): a frame whose last
\* close is the rate, an empty frame, or an exception.
Jawaban ==
    {[jenis |-> "nilai", nilai |-> r] : r \in {15000, 16000}}
    \cup {[jenis |-> "kosong", nilai |-> 0], [jenis |-> "galat", nilai |-> 0]}

\* Mutant of kurs_unduh: no fallback, an unavailable rate becomes zero
kurs_unduh_salah(jawab) == IF jawab.jenis = "nilai" THEN jawab.nilai ELSE 0

\* app.py:26-35, the body of the function
kurs_unduh(jawab) == IF jawab.jenis = "nilai" THEN jawab.nilai ELSE KURS_USD_IDR

\* Mutant of Segar: the comparison with the ttl is inverted
Segar_salah(c, t) == c.ada /\ t - c.sejak > TTL

\* app.py:21, ttl=300: an entry is served while it is younger than the ttl
Segar(c, t) == c.ada /\ t - c.sejak < TTL

\* app.py:21, a miss stores what the body returned, stamped with the time
Simpan(v, t) == [ada |-> TRUE, nilai |-> v, sejak |-> t]

\* One call at time t: the value returned, the cache afterwards, whether the
\* provider was asked, and where the value came from.
ambil_kurs_usd_idr(c, t, jawab) ==
    IF Segar(c, t)
    THEN [nilai |-> c.nilai, cache |-> c, ambil |-> FALSE, asal |-> "cache"]
    ELSE [nilai |-> kurs_unduh(jawab), cache |-> Simpan(kurs_unduh(jawab), t), ambil |-> TRUE,
          asal |-> IF jawab.jenis = "nilai" THEN "langsung" ELSE "cadangan"]

Catat(r) ==
    /\ sebelum' = terakhir
    /\ terakhir' = [ada |-> TRUE, t |-> now, nilai |-> r.nilai, ambil |-> r.ambil]
    /\ muat' = IF r.ambil THEN [ada |-> TRUE, nilai |-> r.nilai, sejak |-> now] ELSE muat
    /\ muat_lama' = muat
    /\ cache' = r.cache

----------------------------------------------------------------------------
(* One run of the script, app.py:207-450 *)

daftar_saham == <<"AAPL", "GOOGL", "MSFT", "AMZN", "TSLA">>

\* What ambil_data_saham may give: a frame, or an exception of the download
Unduhan == {[galat |-> FALSE, df |-> d] : d \in DataPasar} \cup {[galat |-> TRUE, df |-> TanpaBingkai]}

Init ==
    /\ tahap = "skrip"
    /\ masukan = TanpaBingkai
    /\ objek = TanpaBingkai
    /\ kurs_arg = KURS_USD_IDR
    /\ galat = ""
    /\ bingkai = TanpaBingkai
    /\ hasil = TanpaMetrik
    /\ InitLokal

\* A rerun of the script starts: app.py:207, the button, and app.py:398-415
Mulai ==
    /\ pc = "siap"
    /\ \E b \in BOOLEAN :
         /\ tombol' = b
         /\ pc' = IF b THEN "kurs" ELSE "sidebar"
         /\ layar' = IF b THEN <<>> ELSE <<"info_awal">>
    /\ kurs_idr' = 0 /\ kurs_sidebar' = 0 /\ metrik' = TanpaMetrik
    /\ terpanggil' = {} /\ sisi' = "" /\ idx' = 0
    /\ asal_kurs' = "" /\ unduhan' = ""
    /\ UNCHANGED <<now, cache, terakhir, sebelum, muat, muat_lama>>
    /\ UNCHANGED fvars

\* app.py:211
AmbilKursUtama ==
    /\ pc = "kurs"
    /\ \E jawab \in Jawaban :
         LET r == ambil_kurs_usd_idr(cache, now, jawab)
         IN /\ kurs_idr' = r.nilai
            /\ asal_kurs' = r.asal
            /\ Catat(r)
    /\ pc' = "data"
    /\ UNCHANGED <<now, tombol, kurs_sidebar, metrik, layar, terpanggil, sisi, idx, unduhan>>
    /\ UNCHANGED fvars

\* app.py:225-396: what the branch sends once the metrics are computed
Tampilan(pilih_rsi) ==
    <<"info_kurs", "metric_usd", "metric_idr", "grafik">>
    \o (IF pilih_rsi THEN <<"grafik_rsi">> ELSE <<>>)
    \o <<"tabel_data", "tabel_indikator">>

\* app.py:214-396: the download and the branch on data.empty. An exception
\* ends the run: the script stops where it was raised.
Perbarui ==
    /\ pc = "data"
    /\ \E u \in Unduhan, pilih_rsi \in BOOLEAN :
         IF u.galat
         THEN /\ unduhan' = "galat"
              /\ layar' = <<"exception">>
              /\ pc' = "siap"
              /\ UNCHANGED <<metrik, terpanggil>>
         ELSE IF empty(u.df)
         THEN /\ unduhan' = Isi(u.df)
              /\ layar' = <<"error">>
              /\ pc' = "sidebar"
              /\ UNCHANGED <<metrik, terpanggil>>
         ELSE LET o == olah_data(u.df)
                  i == tambah_indikator(o.ret)
                  m == hitung_metrik(i.ret, kurs_idr)
              IN /\ unduhan' = Isi(u.df)
                 /\ IF o.err # ""
                    THEN /\ terpanggil' = {"olah_data"}
                         /\ layar' = <<"exception", o.err>>
                         /\ pc' = "siap"
                         /\ UNCHANGED metrik
                    ELSE IF i.err # ""
                    THEN /\ terpanggil' = {"olah_data", "tambah_indikator"}
                         /\ layar' = <<"exception", i.err>>
                         /\ pc' = "siap"
                         /\ UNCHANGED metrik
                    ELSE IF m.err # ""
                    THEN /\ terpanggil' = {"olah_data", "tambah_indikator", "hitung_metrik"}
                         /\ layar' = <<"exception", m.err>>
                         /\ pc' = "siap"
                         /\ UNCHANGED metrik
                    ELSE /\ terpanggil' = {"olah_data", "tambah_indikator", "hitung_metrik"}
                         /\ metrik' = m.ret
                         /\ layar' = Tampilan(pilih_rsi)
                         /\ pc' = "sidebar"
    /\ UNCHANGED <<now, cache, tombol, kurs_idr, kurs_sidebar, sisi, idx, asal_kurs,
                   terakhir, sebelum, muat, muat_lama>>
    /\ UNCHANGED fvars

\* app.py:423
AmbilKursSidebar ==
    /\ pc = "sidebar"
    /\ \E jawab \in Jawaban :
         LET r == ambil_kurs_usd_idr(cache, now, jawab)
         IN /\ kurs_sidebar' = r.nilai
            /\ Catat(r)
    /\ pc' = "loop"
    /\ idx' = 1
    /\ UNCHANGED <<now, tombol, kurs_idr, metrik, layar, terpanggil, sisi, asal_kurs, unduhan>>
    /\ UNCHANGED fvars

\* app.py:427-450, one turn of the loop: a metric, nothing for an empty
\* frame, or the text line of the except clause
SidebarSaham ==
    /\ pc = "loop"
    /\ \E u \in Unduhan :
         LET o == olah_data(u.df)
         IN sisi' = IF u.galat THEN "text"
                    ELSE IF empty(u.df) THEN ""
                    ELSE IF o.err # "" THEN "text"
                    ELSE "metric"
    /\ idx' = idx + 1
    /\ pc' = IF idx = Len(daftar_saham) THEN "siap" ELSE "loop"
    /\ UNCHANGED <<now, cache, tombol, kurs_idr, kurs_sidebar, metrik, layar, terpanggil,
                   asal_kurs, unduhan, terakhir, sebelum, muat, muat_lama>>
    /\ UNCHANGED fvars

\* Time passes: the downloads and the user take their time
Tick ==
    /\ now + Jeda <= MaxWaktu
    /\ now' = now + Jeda
    /\ UNCHANGED <<pc, cache, tombol, kurs_idr, kurs_sidebar, metrik, layar, terpanggil,
                   sisi, idx, asal_kurs, unduhan, terakhir, sebelum, muat, muat_lama>>
    /\ UNCHANGED fvars

Next ==
    \/ Mulai
    \/ AmbilKursUtama
    \/ Perbarui
    \/ AmbilKursSidebar
    \/ SidebarSaham
    \/ Tick

Spec == Init /\ [][Next]_vars

----------------------------------------------------------------------------
(* Properties *)

Dihitung == tahap = "hitung_metrik" /\ galat = ""

HargaAwal == masukan.baris[1]["Penutupan"]

\* C1 (as stated): for a series whose first close is zero, hitung_metrik
\* either raises a division-by-zero error or reports a percent change of
\* zero; it never returns an infinite or not-a-number percent change.
C1_ZeroBaseline ==
    (tahap = "hitung_metrik" /\ galat \notin {"KeyError", "IndexError"} /\ HargaAwal = 0)
        => \/ galat = "ZeroDivisionError"
           \/ galat = "" /\ hasil.perubahan_persen.jenis = "rasional"
                         /\ hasil.perubahan_persen.num = 0

\* C2 (as stated): on an input of zero rows olah_data and hitung_metrik
\* each fail with the dedicated empty-input error.
C2_EmptyInputError ==
    (tahap \in {"olah_data", "hitung_metrik"} /\ Len(masukan.baris) = 0)
        => galat = "EmptyInputError"

\* C5 (as stated): hitung_metrik fails with an invalid-rate error for every
\* rate <= 0, and the IDR values it returns come from the rate it was given.
C5_InvalidRate ==
    /\ (tahap = "hitung_metrik" /\ Len(masukan.baris) > 0 /\ kurs_arg <= 0)
           => galat = "InvalidRateError"
    /\ Dihitung => hasil.harga_terakhir_idr = hasil.harga_terakhir_usd * kurs_arg

Batas ==
    /\ hasil.harga_terendah_usd <= HargaAwal
    /\ HargaAwal <= hasil.harga_tertinggi_usd
    /\ hasil.harga_terendah_usd <= hasil.harga_terakhir_usd
    /\ hasil.harga_terakhir_usd <= hasil.harga_tertinggi_usd
    /\ hasil.harga_tertinggi_usd >= hasil.harga_terendah_usd

BatangWajar ==
    \A i \in 1..Len(masukan.baris) :
        /\ masukan.baris[i]["Terendah"] <= masukan.baris[i]["Penutupan"]
        /\ masukan.baris[i]["Penutupan"] <= masukan.baris[i]["Tertinggi"]

\* C6 (as stated): for every non-empty series the metrics satisfy
\* low <= first <= high, low <= last <= high and high >= low.
C6_Original == Dihitung => Batas

\* C6 (amended): the same bounds, for every non-empty series each of whose
\* bars has low <= close <= high.
C6_Amended == (Dihitung /\ BatangWajar) => Batas

C6_Witness ==
    /\ Dihitung /\ BatangWajar /\ Len(masukan.baris) = 2
    /\ hasil.harga_terendah_usd < HargaAwal
    /\ hasil.harga_terakhir_usd < hasil.harga_tertinggi_usd

\* C7: for a positive rate every IDR price field is the USD field times the
\* rate, and the volume and the percent change are the same whatever the
\* rate is.
C7_Linear ==
    (Dihitung /\ kurs_arg > 0) =>
        /\ hasil.harga_terakhir_idr = hasil.harga_terakhir_usd * kurs_arg
        /\ hasil.harga_tertinggi_idr = hasil.harga_tertinggi_usd * kurs_arg
        /\ hasil.harga_terendah_idr = hasil.harga_terendah_usd * kurs_arg
        /\ hasil.perubahan_idr = hasil.perubahan_usd * kurs_arg
        /\ hasil.total_volume = Jumlah(Kolom(masukan, "Volume"))
        /\ \A r \in KursUji :
              r > 0 => /\ hitung_metrik(masukan, r).ret.total_volume = hasil.total_volume
                       /\ hitung_metrik(masukan, r).ret.perubahan_persen = hasil.perubahan_persen
                       /\ hitung_metrik(masukan, r).ret.harga_terakhir_usd = hasil.harga_terakhir_usd

C7_Witness ==
    /\ Dihitung /\ kurs_arg = KURS_USD_IDR
    /\ hasil.harga_terakhir_usd = 2 /\ hasil.harga_terakhir_idr = 2 * KURS_USD_IDR
    /\ hasil.perubahan_usd = 1 /\ hasil.total_volume = 3

\* C8 (as stated): olah_data applied to a frame olah_data returned succeeds
\* and returns a frame identical to the one it was given.
C8_Idempotent == tahap = "olah_ulang" => (galat = "" /\ bingkai = masukan)

\* C9 (as stated): each core function leaves the object passed to it as it
\* was, hierarchical column labels included.
C9_InputUnchanged ==
    tahap \in {"olah_data", "olah_ulang", "tambah_indikator", "hitung_metrik"} => objek = masukan

\* C3: when the refresh branch downloads a frame of zero bars, the main area
\* receives the one error message and nothing else, and none of the core
\* functions is called for the request.
C3_NoDataSignal ==
    (tombol /\ unduhan = "kosong") =>
        /\ layar = <<"error">>
        /\ terpanggil = {}
        /\ metrik = TanpaMetrik

C3_Witness == tombol /\ unduhan = "kosong" /\ pc = "loop" /\ layar = <<"error">>

\* C4: when the fetch of the rate finds the provider unavailable, the rate
\* handed to hitung_metrik is KURS_USD_IDR, and the conversion with it does
\* not fail.
C4_Fallback ==
    asal_kurs = "cadangan" =>
        /\ kurs_idr = KURS_USD_IDR
        /\ kurs_idr > 0
        /\ "InvalidRateError" \notin Range(layar)
        /\ "hitung_metrik" \in terpanggil =>
              /\ layar # <<>> /\ layar[1] = "info_kurs"
              /\ metrik.harga_terakhir_idr = metrik.harga_terakhir_usd * KURS_USD_IDR
              /\ metrik.harga_tertinggi_idr = metrik.harga_tertinggi_usd * KURS_USD_IDR

C4_Witness ==
    /\ asal_kurs = "cadangan" /\ "hitung_metrik" \in terpanggil
    /\ metrik.harga_terakhir_idr = 2 * KURS_USD_IDR

SidebarDipanggil == idx >= 1

\* C10 (as stated): a value a call returned at time t is what every call
\* made less than 300 seconds after t returns, without a new fetch.
C10_Original ==
    (terakhir.ada /\ sebelum.ada /\ terakhir.t - sebelum.t < TTL)
        => (~ terakhir.ambil /\ terakhir.nilai = sebelum.nilai)

\* C10 (amended): a value a call fetched at time t is what every call made
\* less than 300 seconds after t returns, without a new fetch; in one run
\* kurs_idr and kurs_sidebar are equal when the sidebar call falls within
\* 300 seconds of the fetch that gave kurs_idr; a call fetches only when no
\* fetch was made in the 300 seconds before it.
C10_Amended ==
    /\ (terakhir.ada /\ muat_lama.ada /\ terakhir.t - muat_lama.sejak < TTL)
           => (~ terakhir.ambil /\ terakhir.nilai = muat_lama.nilai)
    /\ (terakhir.ada /\ terakhir.ambil /\ muat_lama.ada)
           => terakhir.t - muat_lama.sejak >= TTL
    /\ (tombol /\ SidebarDipanggil /\ muat_lama.ada /\ terakhir.t - muat_lama.sejak < TTL)
           => kurs_sidebar = kurs_idr

C10_Witness ==
    /\ tombol /\ SidebarDipanggil /\ ~ terakhir.ambil
    /\ sebelum.ada /\ ~ sebelum.ambil
    /\ terakhir.t - muat_lama.sejak = 2 * Jeda
    /\ kurs_sidebar = kurs_idr /\ kurs_idr = 16000

====
